---- MODULE Spec2Model ----
(***************************************************************************)
(* Inventory transfer and reconciliation engine of src/operations.py:      *)
(* the Transporting and Warehouses collections, the ledger functions       *)
(* add_transporting / delete_transporting / update_warehouse /             *)
(* Receive_warehouse, the scan aggregator run_multiple_scans, the          *)
(* reconciliation subtract_transport_values / clean_value and the two      *)
(* orchestrators send_operation / receive_operation.                       *)
(*                                                                         *)
(* Python strings that carry quantities are sequences of one-character     *)
(* strings, so that formatting (f"{n}", f":{n}", str(n)) and parsing       *)
(* (int(s), lstrip, startswith) are computed, not assumed.                 *)
(* Every await on the document store is one step of a caller.              *)
(***************************************************************************)
EXTENDS Integers, Sequences, FiniteSets, TLC

\* ------------------------------------------------------------------ bounds
MaxScans == 2        \* largest n passed to send_operation / receive_operation
MaxCalls == 2        \* calls made in one behaviour
MaxCount == 2        \* largest count passed to a ledger function called directly
MaxEncoded == 12     \* largest integer whose stored encodings clean_value is applied to
MaxStock == 2        \* largest quantity provisioned in a record of the initial store

Callers == {1, 2}

\* ------------------------------------------------------- python strings
Digits == <<"0", "1", "2", "3", "4", "5", "6", "7", "8", "9">>

DigitChar(d) == Digits[d + 1]

IsDigit(ch) == \E d \in 0..9 : Digits[d + 1] = ch

DigitVal(ch) == CHOOSE d \in 0..9 : Digits[d + 1] = ch

RECURSIVE StrNat(_)
StrNat(n) == IF n < 10 THEN <<DigitChar(n)>>
             ELSE StrNat(n \div 10) \o <<DigitChar(n % 10)>>

\* str(n) / f"{n}" of a Python int
Str(n) == IF n < 0 THEN <<"-">> \o StrNat(0 - n) ELSE StrNat(n)

RECURSIVE NatOf(_)
NatOf(s) == IF s = <<>> THEN 0
            ELSE 10 * NatOf(SubSeq(s, 1, Len(s) - 1)) + DigitVal(s[Len(s)])

AllDigits(s) == Len(s) > 0 /\ \A k \in 1..Len(s) : IsDigit(s[k])

\* int(s) of a Python str: [ok |-> FALSE] stands for ValueError
PyInt(s) ==
    IF AllDigits(s) THEN [ok |-> TRUE, v |-> NatOf(s)]
    ELSE IF Len(s) > 1 /\ s[1] \in {"-", "+"} /\ AllDigits(Tail(s))
         THEN [ok |-> TRUE, v |-> IF s[1] = "-" THEN 0 - NatOf(Tail(s)) ELSE NatOf(Tail(s))]
         ELSE [ok |-> FALSE, v |-> 0]

RECURSIVE LStrip(_, _)
LStrip(s, ch) == IF s # <<>> /\ s[1] = ch THEN LStrip(Tail(s), ch) ELSE s

StartsWith(s, ch) == s # <<>> /\ s[1] = ch

\* f":{count}", the value add_transporting stores
Marked(n) == <<":">> \o Str(n)

\* Python values handed to clean_value: None, a str or an int
PyNone == [t |-> "none", s |-> <<>>, i |-> 0]
PyStr(s) == [t |-> "str", s |-> s, i |-> 0]
PyNum(n) == [t |-> "int", s |-> <<>>, i |-> n]

\* a clean_value that parses the value as it is stored, marker included
clean_value_NoStrip(value) ==
    IF value.t = "none" THEN [ok |-> TRUE, v |-> 0]
    ELSE IF value.t = "str" THEN PyInt(value.s)
         ELSE [ok |-> TRUE, v |-> value.i]

\* [ok |-> FALSE] stands for the ValueError of int()
clean_value(value) ==
    IF value.t = "none" THEN [ok |-> TRUE, v |-> 0]
    ELSE IF value.t = "str" /\ StartsWith(value.s, ":")
         THEN PyInt(LStrip(value.s, ":"))
         ELSE IF value.t = "str" THEN PyInt(value.s)
              ELSE [ok |-> TRUE, v |-> value.i]

\* ------------------------------------------------------------ documents
EmptyDoc == [k \in {} |-> <<>>]

SetField(doc, k, v) == [x \in DOMAIN doc \cup {k} |-> IF x = k THEN v ELSE doc[x]]

\* a dict as a Python value: None, or a mapping
NoneDict == [none |-> TRUE, d |-> EmptyDoc]
Dict(d) == [none |-> FALSE, d |-> d]

\* the dict built from a list of (key, value) pairs: the last pair of a key wins
RECURSIVE DictOf(_)
DictOf(list) ==
    IF list = <<>> THEN EmptyDoc
    ELSE SetField(DictOf(SubSeq(list, 1, Len(list) - 1)),
                  list[Len(list)][1], list[Len(list)][2])

\* a subtraction over the keys of both arguments: a product scanned but not recorded
\* gets a negative delta
subtract_transport_values_AllKeys(dict1, list2) ==
    LET cleaned2 == [k \in 1..Len(list2) |-> clean_value(list2[k][2])]
        dict2 == DictOf([k \in 1..Len(list2) |-> <<list2[k][1], cleaned2[k].v>>])
    IN  IF \E k \in 1..Len(list2) : ~cleaned2[k].ok
        THEN [exc |-> "ValueError", d |-> EmptyDoc]
        ELSE IF dict1.none
        THEN [exc |-> "AttributeError", d |-> EmptyDoc]
        ELSE IF \E key \in DOMAIN dict1.d : ~clean_value(dict1.d[key]).ok
        THEN [exc |-> "ValueError", d |-> EmptyDoc]
        ELSE [exc |-> "",
              d |-> [key \in DOMAIN dict1.d \cup DOMAIN dict2 |->
                        (IF key \in DOMAIN dict1.d THEN clean_value(dict1.d[key]).v ELSE 0)
                        - (IF key \in DOMAIN dict2 THEN dict2[key] ELSE 0)]]

\* [exc |-> "" | name of the exception raised, d |-> the result dict]
subtract_transport_values(dict1, list2) ==
    LET cleaned2 == [k \in 1..Len(list2) |-> clean_value(list2[k][2])]
        dict2 == DictOf([k \in 1..Len(list2) |-> <<list2[k][1], cleaned2[k].v>>])
    IN  IF \E k \in 1..Len(list2) : ~cleaned2[k].ok
        THEN [exc |-> "ValueError", d |-> EmptyDoc]
        ELSE IF dict1.none
        THEN [exc |-> "AttributeError", d |-> EmptyDoc]
        ELSE IF \E key \in DOMAIN dict1.d : ~clean_value(dict1.d[key]).ok
        THEN [exc |-> "ValueError", d |-> EmptyDoc]
        ELSE [exc |-> "",
              d |-> [key \in DOMAIN dict1.d |->
                        clean_value(dict1.d[key]).v
                        - (IF key \in DOMAIN dict2 THEN dict2[key] ELSE 0)]]

\* a tally that puts an element seen for the first time in front
RECURSIVE Counter_NewestFirst(_)
Counter_NewestFirst(results) ==
    IF results = <<>> THEN <<>>
    ELSE LET c == Counter_NewestFirst(SubSeq(results, 1, Len(results) - 1))
             x == results[Len(results)]
         IN  IF \E k \in 1..Len(c) : c[k][1] = x
             THEN [k \in 1..Len(c) |-> IF c[k][1] = x THEN <<x, c[k][2] + 1>> ELSE c[k]]
             ELSE <<<<x, 1>>>> \o c

\* a tally that only records which elements occur: every count is 1
RECURSIVE Counter_Distinct(_)
Counter_Distinct(results) ==
    IF results = <<>> THEN <<>>
    ELSE LET c == Counter_Distinct(SubSeq(results, 1, Len(results) - 1))
             x == results[Len(results)]
         IN  IF \E k \in 1..Len(c) : c[k][1] = x THEN c ELSE Append(c, <<x, 1>>)

\* Counter(results).items(): one pair per distinct element, in order of first occurrence
RECURSIVE Counter(_)
Counter(results) ==
    IF results = <<>> THEN <<>>
    ELSE LET init == SubSeq(results, 1, Len(results) - 1)
             x == results[Len(results)]
             c == Counter(init)
         IN  IF \E k \in 1..Len(c) : c[k][1] = x
             THEN [k \in 1..Len(c) |-> IF c[k][1] = x THEN <<x, c[k][2] + 1>> ELSE c[k]]
             ELSE Append(c, <<x, 1>>)

\* ---------------------------------------------------------------- inputs
Products == {"product_1", "product_2"}

\* the warehouse ids and destination addresses the callers pass; "-" may occur in them
WarehouseIds == {<<"W">>, <<"W", "-", "X">>}
Addresses == {<<"A">>}

\* transporting_id = f"{warehouse_id}-{address}"
RouteKey(warehouse_id, address) == warehouse_id \o <<"-">> \o address

Routes == {RouteKey(w, a) : w \in WarehouseIds, a \in Addresses}

\* UniqueCodes: the codes the resolver knows, and one it does not
UniqueCodes == [c \in {"code_1", "code_2"} |->
                   IF c = "code_1" THEN "product_1" ELSE "product_2"]
Codes == DOMAIN UniqueCodes \cup {"code_x"}

\* one scan attempt: the device raises, or yields a code whose lookup answers or raises
ScanOutcomes == {[dev |-> FALSE, code |-> "", db |-> TRUE]}
                \cup {[dev |-> TRUE, code |-> c, db |-> b] : c \in Codes, b \in BOOLEAN}

\* a call of the document store answers, or raises
RepoOutcomes == BOOLEAN

\* what smtplib does in send_email_with_attachment
MailOutcomes == {"sent", "connect_failed", "login_failed", "send_failed"}

\* get_product_id_by_code: the product id, or "" for None
get_product_id_by_code(o) ==
    IF o.db /\ o.code \in DOMAIN UniqueCodes THEN UniqueCodes[o.code] ELSE ""

\* ------------------------------------------------------------- the state
VARIABLES transport, warehouse, st, ncalls

vars == <<transport, warehouse, st, ncalls>>

NoCall == [op |-> "", wid |-> <<>>, addr |-> <<>>, n |-> 0,
           route |-> <<>>, cid |-> "", count |-> 0, value |-> PyNone]

Msg(k, p, v) == [k |-> k, p |-> p, v |-> v]

\* a collection with no record: what a caller that has made no call has seen
NoRecords == [key \in {} |-> EmptyDoc]

\* the locals of a caller at the start of a call
Fresh(call, t0, w0) ==
    [pc |-> "idle", call |-> call, i |-> 0, results |-> <<>>,
     inventory |-> <<>>, idx |-> 0, new_count |-> 0,
     transport_record |-> NoneDict, res |-> EmptyDoc, status |-> "", mail |-> "",
     result_messages |-> <<>>, branch |-> "", exc |-> "", ret |-> "",
     scanlog |-> <<>>, t0 |-> t0, w0 |-> w0]

\* the provisioned store. Transporting holds the route of another warehouse,
\* which no caller addresses, and may hold the route "W-A"; the quantities are
\* decimal strings without the marker, as delete_transporting leaves them: a
\* quantity with the marker is in the store only once add_transporting has
\* written it. Warehouses holds the record of another warehouse and that of
\* "W", none for "W-X"; product_2 may be missing from a record.
OtherWarehouse == <<"V">>
OtherRoute == RouteKey(OtherWarehouse, <<"B">>)
OtherDoc == [p \in Products |-> Str(1)]

SeedDocs ==
    {[p \in ps |-> Str(q)] : ps \in {{"product_1"}, Products}, q \in {1, MaxStock}}

InitTransport ==
    {[r \in {OtherRoute} |-> OtherDoc]}
    \cup {[r \in {OtherRoute, RouteKey(<<"W">>, <<"A">>)} |->
              IF r = OtherRoute THEN OtherDoc ELSE d] : d \in SeedDocs}

InitWarehouse ==
    {[w \in {OtherWarehouse, <<"W">>} |-> IF w = OtherWarehouse THEN OtherDoc ELSE d] :
        d \in SeedDocs}

Init ==
    /\ transport \in InitTransport
    /\ warehouse \in InitWarehouse
    /\ st = [c \in Callers |-> Fresh(NoCall, NoRecords, NoRecords)]
    /\ ncalls = 0

\* ------------------------------------------------------- ledger helpers
IsOrchestrated(s) == s.call.op \in {"send", "receive"}

\* the (Client_id, count) a ledger function is called with
ClientId(s) == IF IsOrchestrated(s) THEN s.inventory[s.idx][1] ELSE s.call.cid
CountArg(s) == IF IsOrchestrated(s) THEN s.inventory[s.idx][2] ELSE s.call.count

\* update_one(query, {"$set": {field: value}}, upsert): the collection afterwards
UpdateOne(coll, key, field, value, upsert) ==
    IF key \in DOMAIN coll
    THEN [coll EXCEPT ![key] = SetField(coll[key], field, value)]
    ELSE IF upsert
         THEN [k \in DOMAIN coll \cup {key} |->
                  IF k = key THEN SetField(EmptyDoc, field, value) ELSE coll[k]]
         ELSE coll

\* update_result.modified_count of that update_one without upsert
ModifiedCount(coll, key, field, value) ==
    IF key \in DOMAIN coll /\ (field \notin DOMAIN coll[key] \/ coll[key][field] # value)
    THEN 1 ELSE 0

\* an add_transporting that adds count to the quantity the record already holds
add_transporting_Adds(coll, route, count, Client_id) ==
    LET prior == IF route \in DOMAIN coll /\ Client_id \in DOMAIN coll[route]
                 THEN clean_value(PyStr(coll[route][Client_id]))
                 ELSE [ok |-> TRUE, v |-> 0]
    IN  UpdateOne(coll, route, Client_id,
                  Marked((IF prior.ok THEN prior.v ELSE 0) + count), TRUE)

\* add_transporting: the Transporting collection after its upsert
add_transporting(coll, route, count, Client_id) ==
    UpdateOne(coll, route, Client_id, Marked(count), TRUE)

\* delete_transporting without its check of new_count < 0
DeleteDecision_NoGuard(coll, route, count, Client_id) ==
    IF route \notin DOMAIN coll THEN [branch |-> "no_record", new_count |-> 0]
    ELSE IF Client_id \notin DOMAIN coll[route] THEN [branch |-> "no_field", new_count |-> 0]
    ELSE LET existing_count == PyInt(coll[route][Client_id])
         IN  IF ~existing_count.ok THEN [branch |-> "value_error", new_count |-> 0]
             ELSE [branch |-> "update", new_count |-> existing_count.v - count]

\* delete_transporting taking a missing product field for the quantity 0
DeleteDecision_AbsentAsZero(coll, route, count, Client_id) ==
    IF route \notin DOMAIN coll THEN [branch |-> "no_record", new_count |-> 0]
    ELSE LET existing_count == IF Client_id \in DOMAIN coll[route]
                               THEN PyInt(coll[route][Client_id])
                               ELSE [ok |-> TRUE, v |-> 0]
         IN  IF ~existing_count.ok THEN [branch |-> "value_error", new_count |-> 0]
             ELSE IF existing_count.v - count < 0
                  THEN [branch |-> "insufficient", new_count |-> 0]
                  ELSE [branch |-> "update", new_count |-> existing_count.v - count]

\* delete_transporting up to its update_one: [branch, new_count]; the branches are
\* the returns of None ("no_record", "no_field", "insufficient", and "value_error"
\* for the ValueError of int() caught by the except clause) and "update"
DeleteDecision(coll, route, count, Client_id) ==
    IF route \notin DOMAIN coll THEN [branch |-> "no_record", new_count |-> 0]
    ELSE IF Client_id \notin DOMAIN coll[route] THEN [branch |-> "no_field", new_count |-> 0]
    ELSE LET existing_count == PyInt(coll[route][Client_id])
         IN  IF ~existing_count.ok THEN [branch |-> "value_error", new_count |-> 0]
             ELSE IF existing_count.v - count < 0
                  THEN [branch |-> "insufficient", new_count |-> 0]
                  ELSE [branch |-> "update", new_count |-> existing_count.v - count]

\* the value delete_transporting writes
DeleteValue(new_count) == Str(new_count)

\* delete_transporting's result after its update_one
DeleteResult(modified_count, Client_id, new_count) ==
    IF modified_count > 0
    THEN Dict([k \in {Client_id} |-> PyNum(new_count)])
    ELSE NoneDict

\* update_warehouse / Receive_warehouse up to their update_one: [exc, new_count]
WarehouseDecision(coll, warehouse_id, count, Client_id, sign) ==
    IF warehouse_id \notin DOMAIN coll THEN [exc |-> "TypeError", new_count |-> 0]
    ELSE IF Client_id \notin DOMAIN coll[warehouse_id]
         THEN [exc |-> "KeyError", new_count |-> 0]
         ELSE LET existing_count == PyInt(coll[warehouse_id][Client_id])
              IN  IF ~existing_count.ok THEN [exc |-> "ValueError", new_count |-> 0]
                  ELSE [exc |-> "", new_count |-> existing_count.v + sign * count]

\* an update_warehouse with the sign of Receive_warehouse
update_warehouse_count_Credits(coll, warehouse_id, count, Client_id) ==
    WarehouseDecision(coll, warehouse_id, count, Client_id, 1)

\* an update_warehouse that never lets the quantity fall below 0
update_warehouse_count_Clamped(coll, warehouse_id, count, Client_id) ==
    LET d == WarehouseDecision(coll, warehouse_id, count, Client_id, -1)
    IN  IF d.exc = "" /\ d.new_count < 0 THEN [d EXCEPT !.new_count = 0] ELSE d

update_warehouse_count(coll, warehouse_id, count, Client_id) ==
    WarehouseDecision(coll, warehouse_id, count, Client_id, -1)

Receive_warehouse_count(coll, warehouse_id, count, Client_id) ==
    WarehouseDecision(coll, warehouse_id, count, Client_id, 1)

\* update_messages of update_warehouse / Receive_warehouse
UpdateMessages(Client_id, new_count) ==
    <<Msg("Added", Client_id, 0), Msg("Updated", Client_id, new_count)>>

\* ------------------------------------------------------ ends of a call
Returned(s, kind) == [s EXCEPT !.pc = "idle", !.ret = kind]

Raised(s, exc) == [s EXCEPT !.pc = "idle", !.ret = "raised", !.exc = exc]

\* send_operation after one product is done: the next product, or return
NextProduct(s) ==
    IF s.idx < Len(s.inventory)
    THEN [s EXCEPT !.idx = s.idx + 1, !.pc = "ship"]
    ELSE Returned(s, "list")

\* a receive_operation whose return comes after its outer loop: when the credits of
\* one product are done, the next product of the batch is confirmed
NextCredit_NextProduct(s) ==
    IF s.idx < Len(s.inventory)
    THEN [s EXCEPT !.idx = s.idx + 1, !.pc = "rw_find"]
    ELSE IF \E j \in 1..(Len(s.inventory) - 1) :
               s.inventory[j][1] \in DOMAIN s.transport_record.d
    THEN [s EXCEPT !.idx = 1 + (CHOOSE j \in 1..(Len(s.inventory) - 1) :
                                  s.inventory[j][1] \in DOMAIN s.transport_record.d),
                   !.pc = "dt_find"]
    ELSE Returned(s, "list")

\* Receive_warehouse's caller after one credit is done
NextCredit(s) ==
    IF s.idx < Len(s.inventory)
    THEN [s EXCEPT !.idx = s.idx + 1, !.pc = "rw_find"]
    ELSE Returned(s, "list")

\* after product_counts = Counter(results): run_multiple_scans returns the list to
\* whoever called it directly, or the caller's loop is entered
LoopEntry(s) ==
    LET t == [s EXCEPT !.inventory = Counter(s.results)]
    IN  IF t.call.op = "scan" THEN Returned(t, "list")
        ELSE IF t.inventory = <<>>
        THEN Returned(t, IF t.call.op = "send" THEN "list" ELSE "None")
        ELSE [t EXCEPT !.idx = 1, !.pc = IF t.call.op = "send" THEN "ship" ELSE "dt_find"]

\* -------------------------------------------------------------- actions
Begin(c, call, pc) ==
    /\ st[c].pc = "idle"
    /\ ncalls < MaxCalls
    /\ ncalls' = ncalls + 1
    /\ st' = [st EXCEPT ![c] = [Fresh(call, transport, warehouse)
                                  EXCEPT !.pc = pc]]
    /\ UNCHANGED <<transport, warehouse>>

\* send_operation(warehouse_id, address, n) is called
CallSend(c) ==
    \E w \in WarehouseIds, a \in Addresses, n \in {1, MaxScans} :
        Begin(c, [NoCall EXCEPT !.op = "send", !.wid = w, !.addr = a, !.n = n,
                                !.route = RouteKey(w, a)], "scan")

\* receive_operation(warehouse_id, address, n) is called
CallReceive(c) ==
    \E w \in WarehouseIds, a \in Addresses, n \in {1, MaxScans} :
        Begin(c, [NoCall EXCEPT !.op = "receive", !.wid = w, !.addr = a, !.n = n,
                                !.route = RouteKey(w, a)], "scan")

\* the outcomes of the attempts so far; kept for run_multiple_scans called directly
Logged(s, o) == IF s.call.op = "scan" THEN Append(s.scanlog, o) ELSE s.scanlog

\* run_multiple_scans with no try / except around the device call: a device error
\* ends the call
Scan_DeviceErrorFatal(c) ==
    /\ st[c].pc = "scan"
    /\ st[c].i < st[c].call.n
    /\ \E o \in ScanOutcomes :
         LET product_id == IF o.dev THEN get_product_id_by_code(o) ELSE ""
             s == [st[c] EXCEPT !.i = st[c].i + 1,
                                !.scanlog = Logged(st[c], o),
                                !.results = IF product_id # ""
                                            THEN Append(st[c].results, product_id)
                                            ELSE st[c].results]
         IN  st' = [st EXCEPT ![c] = IF ~o.dev THEN Raised(s, "DeviceError")
                                     ELSE IF s.i = s.call.n THEN LoopEntry(s) ELSE s]
    /\ UNCHANGED <<transport, warehouse, ncalls>>

\* run_multiple_scans: one iteration of its loop; after the last, Counter(results)
Scan(c) ==
    /\ st[c].pc = "scan"
    /\ st[c].i < st[c].call.n
    /\ \E o \in ScanOutcomes :
         LET product_id == IF o.dev THEN get_product_id_by_code(o) ELSE ""
             s == [st[c] EXCEPT !.i = st[c].i + 1,
                                !.scanlog = Logged(st[c], o),
                                !.results = IF product_id # ""
                                            THEN Append(st[c].results, product_id)
                                            ELSE st[c].results]
         IN  st' = [st EXCEPT ![c] = IF s.i = s.call.n THEN LoopEntry(s) ELSE s]
    /\ UNCHANGED <<transport, warehouse, ncalls>>

\* a send_operation that debits the warehouse whether or not add_transporting succeeded
Ship_DebitAnyway(c) ==
    /\ st[c].pc = "ship"
    /\ \E ok \in RepoOutcomes :
         LET s == st[c] IN
         /\ transport' = IF ok
                         THEN add_transporting(transport, s.call.route, CountArg(s), ClientId(s))
                         ELSE transport
         /\ st' = [st EXCEPT ![c] =
                     [s EXCEPT !.pc = "uw_find",
                               !.result_messages =
                                   Append(s.result_messages,
                                          Msg(IF ok THEN "Inserted" ELSE "Failed",
                                              ClientId(s), 0))]]
    /\ UNCHANGED <<warehouse, ncalls>>

\* send_operation: add_transporting for the current product
Ship(c) ==
    /\ st[c].pc = "ship"
    /\ \E ok \in RepoOutcomes :
         LET s == st[c] IN
         IF ok
         THEN /\ transport' = add_transporting(transport, s.call.route, CountArg(s), ClientId(s))
              /\ st' = [st EXCEPT ![c] =
                          [s EXCEPT !.pc = "uw_find",
                                    !.result_messages =
                                        Append(s.result_messages, Msg("Inserted", ClientId(s), 0))]]
         ELSE /\ transport' = transport
              /\ st' = [st EXCEPT ![c] =
                          NextProduct([s EXCEPT !.result_messages =
                                        Append(s.result_messages, Msg("Failed", ClientId(s), 0))])]
    /\ UNCHANGED <<warehouse, ncalls>>

\* update_warehouse: find_one and the computation of new_count
UwFind(c) ==
    /\ st[c].pc = "uw_find"
    /\ \E ok \in RepoOutcomes :
         LET s == st[c]
             d == update_warehouse_count(warehouse, s.call.wid, CountArg(s), ClientId(s))
         IN  st' = [st EXCEPT ![c] =
                      IF ~ok THEN Raised(s, "RepoError")
                      ELSE IF d.exc # "" THEN Raised(s, d.exc)
                      ELSE [s EXCEPT !.pc = "uw_update", !.new_count = d.new_count]]
    /\ UNCHANGED <<transport, warehouse, ncalls>>

\* update_warehouse: update_one and the return to send_operation
UwUpdate(c) ==
    /\ st[c].pc = "uw_update"
    /\ \E ok \in RepoOutcomes :
         LET s == st[c]
             t == [s EXCEPT !.result_messages =
                       s.result_messages \o UpdateMessages(ClientId(s), s.new_count)]
         IN  IF ok
             THEN /\ warehouse' = UpdateOne(warehouse, s.call.wid, ClientId(s),
                                            Str(s.new_count), FALSE)
                  /\ st' = [st EXCEPT ![c] =
                              IF IsOrchestrated(s) THEN NextProduct(t) ELSE Returned(t, "list")]
             ELSE /\ warehouse' = warehouse
                  /\ st' = [st EXCEPT ![c] = Raised(s, "RepoError")]
    /\ UNCHANGED <<transport, ncalls>>

\* delete_transporting returns record (None or a dict) to its caller
AfterDelete(s, record, branch) ==
    LET t == [s EXCEPT !.transport_record = record, !.branch = branch]
    IN  IF IsOrchestrated(s) THEN [t EXCEPT !.pc = "reconcile"]
        ELSE Returned(t, IF record.none THEN "None" ELSE "dict")

\* delete_transporting: find_one, the checks and the computation of new_count
DtFind(c) ==
    /\ st[c].pc = "dt_find"
    /\ \E ok \in RepoOutcomes :
         LET s == st[c]
             d == DeleteDecision(transport, s.call.route, CountArg(s), ClientId(s))
         IN  st' = [st EXCEPT ![c] =
                      IF ~ok THEN AfterDelete(s, NoneDict, "repo_error")
                      ELSE IF d.branch # "update" THEN AfterDelete(s, NoneDict, d.branch)
                      ELSE [s EXCEPT !.pc = "dt_update", !.new_count = d.new_count]]
    /\ UNCHANGED <<transport, warehouse, ncalls>>

\* delete_transporting: update_one and the return
DtUpdate(c) ==
    /\ st[c].pc = "dt_update"
    /\ \E ok \in RepoOutcomes :
         LET s == st[c]
             value == DeleteValue(s.new_count)
             m == ModifiedCount(transport, s.call.route, ClientId(s), value)
             r == DeleteResult(m, ClientId(s), s.new_count)
         IN  IF ok
             THEN /\ transport' = UpdateOne(transport, s.call.route, ClientId(s), value, FALSE)
                  /\ st' = [st EXCEPT ![c] =
                              AfterDelete(s, r, IF r.none THEN "not_modified" ELSE "updated")]
             ELSE /\ transport' = transport
                  /\ st' = [st EXCEPT ![c] = AfterDelete(s, NoneDict, "repo_error")]
    /\ UNCHANGED <<warehouse, ncalls>>

\* a classification that takes a surplus for no loss
NoLoss_Surplus(res) == \A k \in DOMAIN res : res[k] <= 0

\* all(value == 0 for value in res.values())
NoLoss(res) == \A k \in DOMAIN res : res[k] = 0

\* the inventory as the list of (product, count) pairs of Python ints
PyInventory(inventory) ==
    [k \in 1..Len(inventory) |-> <<inventory[k][1], PyNum(inventory[k][2])>>]

\* receive_operation: subtract_transport_values, the status and, on loss, the mail
Reconcile(c) ==
    /\ st[c].pc = "reconcile"
    /\ LET s == st[c]
           r == subtract_transport_values(s.transport_record, PyInventory(s.inventory))
           go(t) == [t EXCEPT !.res = r.d, !.idx = 1, !.pc = "rw_find"]
       IN  IF r.exc # ""
           THEN st' = [st EXCEPT ![c] = Raised(s, r.exc)]
           ELSE IF NoLoss(r.d)
           THEN st' = [st EXCEPT ![c] =
                         go([s EXCEPT !.status = "No material lost",
                                      !.result_messages = <<Msg("No material lost", "", 0)>>])]
           ELSE \E m \in MailOutcomes :
                  st' = [st EXCEPT ![c] =
                           IF m = "connect_failed"
                           THEN Raised([s EXCEPT !.res = r.d, !.mail = m], "UnboundLocalError")
                           ELSE go([s EXCEPT !.status = "None", !.mail = m,
                                             !.result_messages = <<Msg("None", "", 0)>>])]
    /\ UNCHANGED <<transport, warehouse, ncalls>>

\* Receive_warehouse: find_one and the computation of new_count
RwFind(c) ==
    /\ st[c].pc = "rw_find"
    /\ \E ok \in RepoOutcomes :
         LET s == st[c]
             d == Receive_warehouse_count(warehouse, s.call.wid, CountArg(s), ClientId(s))
         IN  st' = [st EXCEPT ![c] =
                      IF ~ok THEN Raised(s, "RepoError")
                      ELSE IF d.exc # "" THEN Raised(s, d.exc)
                      ELSE [s EXCEPT !.pc = "rw_update", !.new_count = d.new_count]]
    /\ UNCHANGED <<transport, warehouse, ncalls>>

\* Receive_warehouse: update_one and the return to receive_operation
RwUpdate(c) ==
    /\ st[c].pc = "rw_update"
    /\ \E ok \in RepoOutcomes :
         LET s == st[c]
             t == [s EXCEPT !.result_messages =
                       s.result_messages \o UpdateMessages(ClientId(s), s.new_count)]
         IN  IF ok
             THEN /\ warehouse' = UpdateOne(warehouse, s.call.wid, ClientId(s),
                                            Str(s.new_count), FALSE)
                  /\ st' = [st EXCEPT ![c] =
                              IF IsOrchestrated(s) THEN NextCredit(t) ELSE Returned(t, "list")]
             ELSE /\ warehouse' = warehouse
                  /\ st' = [st EXCEPT ![c] = Raised(s, "RepoError")]
    /\ UNCHANGED <<transport, ncalls>>

\* the steps of the ledger functions, shared by every specification
LedgerStep(c) ==
    \/ UwFind(c)
    \/ UwUpdate(c)
    \/ DtFind(c)
    \/ DtUpdate(c)
    \/ RwFind(c)
    \/ RwUpdate(c)

\* one caller running send_operation and receive_operation, one call after the other
Next ==
    \/ CallSend(1)
    \/ CallReceive(1)
    \/ Scan(1)
    \/ Ship(1)
    \/ Reconcile(1)
    \/ LedgerStep(1)

Spec == Init /\ [][Next]_vars

\* ------------------------------------- the ledger functions called directly
\* add_transporting(route, count, Client_id): one upsert, or its exception
CallShip(c, R) ==
    /\ st[c].pc = "idle"
    /\ ncalls < MaxCalls
    /\ ncalls' = ncalls + 1
    /\ \E r \in R, p \in Products, n \in 0..MaxCount, ok \in RepoOutcomes :
         LET s == Fresh([NoCall EXCEPT !.op = "ship", !.route = r, !.cid = p, !.count = n],
                        transport, warehouse)
         IN  /\ transport' = IF ok THEN add_transporting(transport, r, n, p) ELSE transport
             /\ st' = [st EXCEPT ![c] = Returned(s, IF ok THEN "route" ELSE "None")]
    /\ UNCHANGED warehouse

\* delete_transporting(route, count, Client_id) is called
CallConfirm(c, R) ==
    \E r \in R, p \in Products, n \in 0..MaxCount :
        Begin(c, [NoCall EXCEPT !.op = "confirm", !.route = r, !.cid = p, !.count = n],
              "dt_find")

\* update_warehouse(warehouse_id, count, Client_id) is called
CallDebit(c, W) ==
    \E w \in W, p \in Products, n \in 0..MaxCount :
        Begin(c, [NoCall EXCEPT !.op = "debit", !.wid = w, !.cid = p, !.count = n],
              "uw_find")

\* Receive_warehouse(warehouse_id, count, Client_id) is called
CallCredit(c, W) ==
    \E w \in W, p \in Products, n \in 0..MaxCount :
        Begin(c, [NoCall EXCEPT !.op = "credit", !.wid = w, !.cid = p, !.count = n],
              "rw_find")

\* callers C calling the ledger functions on routes R and warehouses W
LedgerNext(C, R, W) ==
    \E c \in C :
        \/ CallShip(c, R)
        \/ CallConfirm(c, R)
        \/ CallDebit(c, W)
        \/ CallCredit(c, W)
        \/ LedgerStep(c)

\* one caller, one ledger call after the other
NextLedger == LedgerNext({1}, Routes, WarehouseIds)

SpecLedger == Init /\ [][NextLedger]_vars

\* two callers on one route and one warehouse, whose ledger calls interleave at
\* every await; both products are provisioned with the largest quantity
InitConc ==
    /\ transport = [r \in {OtherRoute, RouteKey(<<"W">>, <<"A">>)} |->
                       IF r = OtherRoute THEN OtherDoc ELSE [p \in Products |-> Str(MaxStock)]]
    /\ warehouse = [w \in {OtherWarehouse, <<"W">>} |->
                       IF w = OtherWarehouse THEN OtherDoc ELSE [p \in Products |-> Str(MaxStock)]]
    /\ st = [c \in Callers |-> Fresh(NoCall, NoRecords, NoRecords)]
    /\ ncalls = 0

NextConc == LedgerNext(Callers, {RouteKey(<<"W">>, <<"A">>)}, {<<"W">>})

SpecConc == InitConc /\ [][NextConc]_vars

\* two callers whose add_transporting and delete_transporting calls on one route
\* interleave at every await
NextConcTransport ==
    \E c \in Callers :
        \/ CallShip(c, {RouteKey(<<"W">>, <<"A">>)})
        \/ CallConfirm(c, {RouteKey(<<"W">>, <<"A">>)})
        \/ DtFind(c)
        \/ DtUpdate(c)

SpecConcTransport == InitConc /\ [][NextConcTransport]_vars

\* two callers whose update_warehouse and Receive_warehouse calls on one warehouse
\* interleave at every await
NextConcWarehouse ==
    \E c \in Callers :
        \/ CallDebit(c, {<<"W">>})
        \/ CallCredit(c, {<<"W">>})
        \/ UwFind(c)
        \/ UwUpdate(c)
        \/ RwFind(c)
        \/ RwUpdate(c)

SpecConcWarehouse == InitConc /\ [][NextConcWarehouse]_vars

\* ------------------------------------------- run_multiple_scans called directly
\* run_multiple_scans(n) is called
CallScan(c) ==
    \E n \in 1..MaxScans : Begin(c, [NoCall EXCEPT !.op = "scan", !.n = n], "scan")

NextScan == CallScan(1) \/ Scan(1)

SpecScan == Init /\ [][NextScan]_vars

\* ------------------------------------ subtract_transport_values called directly
\* the values a recorded quantity q may be held as: the stored string with or
\* without the marker, or the int delete_transporting returns
Recorded(q) == {PyStr(Marked(q)), PyStr(Str(q)), PyNum(q)}

RecordedDicts ==
    UNION {[ps -> UNION {Recorded(q) : q \in 0..MaxStock}] : ps \in SUBSET Products}

\* the batches of run_multiple_scans: distinct products, counts >= 1
Batches ==
    {<<>>}
    \cup {<<<<p, n>>>> : p \in Products, n \in 1..MaxScans}
    \cup {b \in {<<<<p, n>>, <<q, m>>>> : p \in Products, q \in Products,
                                           n \in 1..MaxScans, m \in 1..MaxScans} :
             b[1][1] # b[2][1]}

\* subtract_transport_values(dict1, list2) is called, once
CallSubtract(c) ==
    /\ st[c].pc = "idle"
    /\ ncalls = 0
    /\ ncalls' = 1
    /\ \E d \in RecordedDicts, b \in Batches :
         st' = [st EXCEPT ![c] =
                  [Fresh([NoCall EXCEPT !.op = "subtract"], transport, warehouse)
                     EXCEPT !.pc = "subtract", !.transport_record = Dict(d),
                            !.inventory = b]]
    /\ UNCHANGED <<transport, warehouse>>

\* subtract_transport_values returns, or raises
Subtract(c) ==
    /\ st[c].pc = "subtract"
    /\ LET s == st[c]
           r == subtract_transport_values(s.transport_record, PyInventory(s.inventory))
       IN  st' = [st EXCEPT ![c] =
                    IF r.exc # "" THEN Raised(s, r.exc)
                    ELSE Returned([s EXCEPT !.res = r.d], "dict")]
    /\ UNCHANGED <<transport, warehouse, ncalls>>

NextSubtract == CallSubtract(1) \/ Subtract(1)

SpecSubtract == Init /\ [][NextSubtract]_vars

\* ------------------------------------------------- clean_value called directly
\* the values clean_value is applied to: None, the marker alone, and the encodings
\* of an integer k with and without the marker, and k itself
CleanInputs ==
    {PyNone, PyStr(<<":">>)}
    \cup UNION {{PyStr(Marked(k)), PyStr(Str(k)), PyNum(k)} : k \in 0..MaxEncoded}

\* clean_value(value) is called, once
CallClean(c) ==
    /\ st[c].pc = "idle"
    /\ ncalls = 0
    /\ ncalls' = 1
    /\ \E v \in CleanInputs :
         st' = [st EXCEPT ![c] =
                  [Fresh([NoCall EXCEPT !.op = "clean", !.value = v], transport, warehouse)
                     EXCEPT !.pc = "clean"]]
    /\ UNCHANGED <<transport, warehouse>>

\* clean_value returns its int, or int() raises
Clean(c) ==
    /\ st[c].pc = "clean"
    /\ LET s == st[c]
           r == clean_value(s.call.value)
       IN  st' = [st EXCEPT ![c] =
                    IF r.ok THEN Returned([s EXCEPT !.new_count = r.v], "int")
                    ELSE Raised(s, "ValueError")]
    /\ UNCHANGED <<transport, warehouse, ncalls>>

NextClean == CallClean(1) \/ Clean(1)

SpecClean == Init /\ [][NextClean]_vars

\* ------------------------------------- the route key of the two orchestrators
\* addresses, one of which contains the separator of the route key
RouteAddresses == Addresses \cup {<<"X", "-", "A">>}

\* send_operation(warehouse_id, address, n) is called; its first statement is next
CallSendKey(c) ==
    \E w \in WarehouseIds, a \in RouteAddresses :
        Begin(c, [NoCall EXCEPT !.op = "send", !.wid = w, !.addr = a, !.n = 1], "key")

\* receive_operation(warehouse_id, address, n) is called; its first statement is next
CallReceiveKey(c) ==
    \E w \in WarehouseIds, a \in RouteAddresses :
        Begin(c, [NoCall EXCEPT !.op = "receive", !.wid = w, !.addr = a, !.n = 1], "key")

\* transporting_id = f"{warehouse_id}-{address}"; run_multiple_scans comes next
TransportingId(c) ==
    /\ st[c].pc = "key"
    /\ st' = [st EXCEPT ![c] =
                [st[c] EXCEPT !.call.route = RouteKey(st[c].call.wid, st[c].call.addr),
                              !.pc = "scan"]]
    /\ UNCHANGED <<transport, warehouse, ncalls>>

\* one caller sends, the other receives, up to the computation of the route key
NextRoute ==
    \/ CallSendKey(1)
    \/ CallReceiveKey(2)
    \/ \E c \in Callers : TransportingId(c)

SpecRoute == Init /\ [][NextRoute]_vars

\* ------------------------------------------------------------ the claims
\* a call of operation op by caller c has ended, by a return or by an exception
Ended(c, op) == st[c].pc = "idle" /\ st[c].call.op = op /\ st[c].ret # ""

\* the field Client_id of record key in collection coll, as a Python value
FieldOf(coll, key, Client_id) ==
    IF key \in DOMAIN coll /\ Client_id \in DOMAIN coll[key]
    THEN PyStr(coll[key][Client_id]) ELSE PyNone

HasField(coll, key, Client_id) == key \in DOMAIN coll /\ Client_id \in DOMAIN coll[key]

\* C1: for a transport record holding the integer quantity existing for a product and
\* every count >= 0 (0 included), delete_transporting returns a result iff
\* existing - count >= 0, and then the stored quantity is exactly existing - count.
\* (The store answered every call: a repository exception is not the case claimed.)
C1_ConfirmIffSufficient ==
    \A c \in Callers :
        LET s == st[c]
            existing == PyInt(s.t0[s.call.route][s.call.cid])
        IN  (/\ Ended(c, "confirm")
             /\ s.branch # "repo_error"
             /\ HasField(s.t0, s.call.route, s.call.cid)
             /\ existing.ok)
            => /\ (s.ret = "dict") <=> (existing.v - s.call.count >= 0)
               /\ (s.ret = "dict") =>
                     transport[s.call.route][s.call.cid] = Str(existing.v - s.call.count)

\* C2: after add_transporting(route, c, product) has written the record, a following
\* delete_transporting(route, k, product) with c >= k >= 1 succeeds and leaves c - k.
\* (In SpecLedger a quantity with the marker is in the store only when
\* add_transporting wrote it.)
C2_ShipThenConfirm ==
    \A c \in Callers :
        LET s == st[c] IN
        \A q \in 1..MaxCount :
            (/\ Ended(c, "confirm")
             /\ s.branch # "repo_error"
             /\ HasField(s.t0, s.call.route, s.call.cid)
             /\ s.t0[s.call.route][s.call.cid] = Marked(q)
             /\ s.call.count >= 1
             /\ q >= s.call.count)
            => /\ s.ret = "dict"
               /\ clean_value(FieldOf(transport, s.call.route, s.call.cid))
                     = [ok |-> TRUE, v |-> q - s.call.count]

\* the count scanned for product p in an inventory (0 when it was not scanned)
Scanned(inventory, p) ==
    IF \E k \in 1..Len(inventory) : inventory[k][1] = p
    THEN inventory[CHOOSE k \in 1..Len(inventory) : inventory[k][1] = p][2]
    ELSE 0

\* C3: when the transport record of the route holds q for a product, stored with the
\* marker, and receive_operation scans exactly q units of that product and nothing
\* else, the delta is 0, the status "No material lost", the notifier is not invoked
\* and the warehouse quantity of the product is increased by q. (The warehouse
\* record holds the product and the store answered every call.)
C3_ExactReceipt ==
    \A c \in Callers :
        LET s == st[c] IN
        \A p \in Products, q \in 1..MaxScans :
            (/\ Ended(c, "receive")
             /\ s.exc # "RepoError" /\ s.branch # "repo_error"
             /\ HasField(s.t0, s.call.route, p)
             /\ s.t0[s.call.route][p] = Marked(q)
             /\ s.inventory = <<<<p, q>>>>
             /\ HasField(s.w0, s.call.wid, p))
            => /\ s.ret = "list"
               /\ s.res = [k \in {p} |-> 0]
               /\ s.status = "No material lost"
               /\ s.mail = ""
               /\ PyInt(warehouse[s.call.wid][p]).v = PyInt(s.w0[s.call.wid][p]).v + q

\* receive_operation has got the deltas of subtract_transport_values
Reconciled(c) == st[c].call.op = "receive" /\ st[c].res # EmptyDoc

\* C4: in receive_operation the delta of a product is the quantity the transport
\* ledger recorded for it at receipt time, before this receipt's subtraction, minus
\* the count scanned in this batch.
C4_DeltaFromRecorded ==
    \A c \in Callers :
        LET s == st[c] IN
        Reconciled(c) =>
            \A p \in DOMAIN s.res :
                s.res[p] = clean_value(FieldOf(s.t0, s.call.route, p)).v
                           - Scanned(s.inventory, p)

\* C5: receive_operation's status is "No material lost" iff every delta returned by
\* the reconciliation is exactly 0, and the notifier is invoked exactly when some
\* delta is nonzero.
C5_Classification ==
    \A c \in Callers :
        LET s == st[c] IN
        Reconciled(c) =>
            /\ (s.status = "No material lost") <=> (\A p \in DOMAIN s.res : s.res[p] = 0)
            /\ (s.mail # "") <=> (\E p \in DOMAIN s.res : s.res[p] # 0)

\* C5's case: a delta off by one, the notifier invoked
C5_Witness ==
    \E c \in Callers :
        /\ Reconciled(c)
        /\ \E p \in DOMAIN st[c].res : st[c].res[p] \in {-1, 1}
        /\ st[c].mail = "sent"
        /\ st[c].status = "None"

\* the quantities of collection coll that are integers >= 0 once the marker is stripped
NonNegative(coll) ==
    \A key \in DOMAIN coll : \A p \in DOMAIN coll[key] :
        LET q == clean_value(PyStr(coll[key][p])) IN q.ok /\ q.v >= 0

\* C6: in every state reached by any interleaving of add_transporting and
\* delete_transporting calls of concurrent callers, from non-negative transport
\* records, every product quantity of every transport record is >= 0.
C6_TransportNonNegative == NonNegative(transport)

\* C6's case: a caller is about to write a new_count computed from a quantity that
\* another caller's delete_transporting has replaced since
C6_Witness ==
    \E c \in Callers, d \in Callers :
        /\ c # d
        /\ st[c].pc = "dt_update" /\ st[c].call.op = "confirm"
        /\ Ended(d, "confirm") /\ st[d].ret = "dict"
        /\ st[d].call.route = st[c].call.route /\ st[d].call.cid = st[c].call.cid
        /\ PyInt(transport[st[c].call.route][st[c].call.cid]).v
              # st[c].new_count + st[c].call.count

\* C7: in every state reached by send_operation and receive_operation calls, from
\* non-negative warehouse records, every product quantity of every warehouse record
\* is >= 0 (a debit that would make one negative is rejected).
C7_WarehouseNonNegative ==
    \A w \in DOMAIN warehouse : \A p \in DOMAIN warehouse[w] :
        PyInt(warehouse[w][p]).ok /\ PyInt(warehouse[w][p]).v >= 0

\* C8: whenever delete_transporting is rejected because the route record is absent,
\* the product field is absent on it, or existing - count < 0, it returns None and
\* leaves the Transporting collection as it was: no field written, no record created.
C8_RejectedUnchanged ==
    \A c \in Callers :
        LET s == st[c]
            existing == PyInt(s.t0[s.call.route][s.call.cid])
        IN  (/\ Ended(c, "confirm")
             /\ \/ s.call.route \notin DOMAIN s.t0
                \/ s.call.cid \notin DOMAIN s.t0[s.call.route]
                \/ existing.ok /\ existing.v - s.call.count < 0)
            => s.ret = "None" /\ transport = s.t0

\* C8's case: 2 requested of a recorded 1, rejected as insufficient
C8_Witness ==
    \E c \in Callers :
        /\ Ended(c, "confirm")
        /\ st[c].branch = "insufficient"
        /\ st[c].call.count = 2
        /\ HasField(transport, st[c].call.route, st[c].call.cid)
        /\ transport[st[c].call.route][st[c].call.cid] = Str(1)

\* C9: when delete_transporting is rejected inside receive_operation (no route
\* record, no product field, or insufficient quantity), receive_operation does not
\* raise and the transport ledger is not mutated.
C9_RejectionDoesNotRaise ==
    \A c \in Callers :
        (/\ Ended(c, "receive")
         /\ st[c].branch \in {"no_record", "no_field", "insufficient"})
        => st[c].ret # "raised" /\ transport = st[c].t0

\* C10: when the warehouse record is absent, or the product field is absent on it,
\* update_warehouse / Receive_warehouse reject the product with a message: no
\* exception reaches send_operation or receive_operation, which go on to return.
C10_MissingWarehouseNoException ==
    \A c \in Callers :
        (Ended(c, "send") \/ Ended(c, "receive"))
        => st[c].exc \notin {"TypeError", "KeyError"}

MailFailures == {"connect_failed", "login_failed", "send_failed"}

\* a receive_operation whose notifier was invoked and failed
NotifierFailed(c) == st[c].call.op = "receive" /\ st[c].mail \in MailFailures

\* every entry of the batch is credited to the warehouse record, once
Credited(c) ==
    \A k \in 1..Len(st[c].inventory) :
        LET p == st[c].inventory[k][1]
            e == clean_value(FieldOf(st[c].w0, st[c].call.wid, p))
            q == clean_value(FieldOf(warehouse, st[c].call.wid, p))
        IN  e.ok /\ q.ok /\ q.v = e.v + st[c].inventory[k][2]

\* C11: when the notifier fails at any step (connection, login or send) during a
\* receive_operation that detected a loss, the failure does not propagate out of
\* the notifier: the call does not end with the notifier's exception, and where the
\* warehouse record holds every product of the batch and the store answers, the
\* call returns its messages with every credit applied.
C11_NotifierFailureOnlyLogged ==
    \A c \in Callers :
        (NotifierFailed(c) /\ Ended(c, "receive")) =>
            /\ st[c].exc # "UnboundLocalError"
            /\ ( /\ st[c].exc # "RepoError"
                 /\ \A k \in 1..Len(st[c].inventory) :
                       HasField(st[c].w0, st[c].call.wid, st[c].inventory[k][1]) )
               => (st[c].ret = "list" /\ Credited(c))

\* the sum of the counts of a batch
RECURSIVE Total(_)
Total(inventory) ==
    IF inventory = <<>> THEN 0
    ELSE inventory[1][2] + Total(Tail(inventory))

\* the attempt yielded a code and the code resolved to a product
Resolved(o) == o.dev /\ o.db /\ o.code \in {"code_1", "code_2"}

\* C12: for every n and every sequence of n scan outcomes (resolved, unknown code,
\* device failure), the counts of the batch run_multiple_scans returns sum to at
\* most n, and to exactly n iff every one of the n attempts yielded a code that
\* resolved to a product.
C12_BatchTotal ==
    \A c \in Callers :
        Ended(c, "scan") =>
            /\ st[c].ret = "list"
            /\ Len(st[c].scanlog) = st[c].call.n
            /\ Total(st[c].inventory) <= st[c].call.n
            /\ (Total(st[c].inventory) = st[c].call.n)
                 <=> (\A k \in 1..Len(st[c].scanlog) : Resolved(st[c].scanlog[k]))

\* two attempts resolved to the same product: one entry, of count 2
C12_Witness ==
    \E c \in Callers :
        /\ Ended(c, "scan")
        /\ st[c].call.n = MaxScans
        /\ \A k \in 1..Len(st[c].scanlog) : Resolved(st[c].scanlog[k])
        /\ Len(st[c].inventory) = 1
        /\ Total(st[c].inventory) = MaxScans

\* a step of run_multiple_scans in which caller c makes one scan attempt
ScanStep(c) ==
    /\ st[c].call.op = "scan"
    /\ st[c].pc = "scan"
    /\ st'[c] # st[c]

\* what one attempt of run_multiple_scans does: it is counted, it touches no ledger,
\* a failed attempt leaves the results collected so far alone, and the loop goes on
\* to the next attempt unless this was the n-th
AttemptDiscarded(c) ==
    LET o == st'[c].scanlog[Len(st'[c].scanlog)]
    IN  /\ st'[c].i = st[c].i + 1
        /\ Len(st'[c].scanlog) = st'[c].i
        /\ transport' = transport
        /\ warehouse' = warehouse
        /\ ~Resolved(o) => st'[c].results = st[c].results
        /\ Resolved(o) => st'[c].results = Append(st[c].results, UniqueCodes[o.code])
        /\ IF st'[c].i < st[c].call.n
           THEN st'[c].pc = "scan"
           ELSE st'[c].pc = "idle" /\ st'[c].ret = "list"

\* C13: run_multiple_scans(n) makes exactly n scan attempts and then terminates with
\* a batch; a device failure or an unresolved code on attempt i discards only that
\* attempt, changes no ledger, and attempts i+1..n are still made.
C13_EveryAttemptMade ==
    /\ [](\A c \in Callers : Ended(c, "scan") =>
              st[c].ret = "list" /\ st[c].i = st[c].call.n)
    /\ [][\A c \in Callers : ScanStep(c) => AttemptDiscarded(c)]_vars

\* the first attempt failed at the device, the second was made and resolved
C13_Witness ==
    \E c \in Callers :
        /\ Ended(c, "scan")
        /\ st[c].call.n = MaxScans
        /\ ~st[c].scanlog[1].dev
        /\ Resolved(st[c].scanlog[MaxScans])
        /\ st[c].inventory # <<>>

\* the quantity a recorded value stands for
QuantityOf(v) == CHOOSE q \in 0..MaxStock : v \in Recorded(q)

\* C14: subtract_transport_values(dict1, list2) returns a mapping whose key set is
\* exactly the key set of dict1 (the recorded shipment), with, for each key, the
\* cleaned recorded value minus the count scanned for that key (0 when it was not
\* scanned); a product scanned but not recorded never appears.
C14_DeltaKeys ==
    \A c \in Callers :
        Ended(c, "subtract") =>
            /\ st[c].ret = "dict"
            /\ DOMAIN st[c].res = DOMAIN st[c].transport_record.d
            /\ \A key \in DOMAIN st[c].res :
                  st[c].res[key] = QuantityOf(st[c].transport_record.d[key])
                                     - Scanned(st[c].inventory, key)

\* a product was scanned that the record does not hold, another is held with the marker
C14_Witness ==
    \E c \in Callers :
        /\ Ended(c, "subtract")
        /\ \E k \in 1..Len(st[c].inventory) :
              st[c].inventory[k][1] \notin DOMAIN st[c].transport_record.d
        /\ \E key \in DOMAIN st[c].transport_record.d :
              /\ st[c].transport_record.d[key] = PyStr(Marked(MaxStock))
              /\ Scanned(st[c].inventory, key) = 1
              /\ st[c].res[key] = MaxStock - 1

\* C15: add_transporting creates the route's record if it is absent and sets the
\* product's field to count whatever that field held before (it overwrites, it does
\* not add); every other product field of that record and every other record is
\* unchanged.
C15_ShipOverwrites ==
    \A c \in Callers :
        (Ended(c, "ship") /\ st[c].ret = "route") =>
            LET route == st[c].call.route
                t0 == st[c].t0
            IN  /\ DOMAIN transport = DOMAIN t0 \cup {route}
                /\ transport[route][st[c].call.cid] = Marked(st[c].call.count)
                /\ clean_value(FieldOf(transport, route, st[c].call.cid))
                     = [ok |-> TRUE, v |-> st[c].call.count]
                /\ DOMAIN transport[route]
                     = (IF route \in DOMAIN t0 THEN DOMAIN t0[route] ELSE {})
                       \cup {st[c].call.cid}
                /\ \A p \in DOMAIN transport[route] \ {st[c].call.cid} :
                      transport[route][p] = t0[route][p]
                /\ \A r \in DOMAIN t0 \ {route} : transport[r] = t0[r]

\* the field held another quantity before the call, and another field is held
C15_Witness ==
    \E c \in Callers :
        /\ Ended(c, "ship")
        /\ st[c].ret = "route"
        /\ HasField(st[c].t0, st[c].call.route, st[c].call.cid)
        /\ st[c].t0[st[c].call.route][st[c].call.cid] = Str(MaxStock)
        /\ st[c].call.count = 1
        /\ DOMAIN transport[st[c].call.route] = Products

\* the amount a direct warehouse call adds to the quantity
Signed(call) == IF call.op = "debit" THEN 0 - call.count ELSE call.count

\* C16: on a warehouse record that holds the quantity e for the product,
\* update_warehouse writes exactly e - count, with no non-negativity guard (the
\* result may be negative), and Receive_warehouse writes exactly e + count; only
\* that product's field of that warehouse record changes.
C16_DebitCreditExact ==
    \A c \in Callers :
        ( /\ st[c].call.op \in {"debit", "credit"}
          /\ Ended(c, st[c].call.op)
          /\ st[c].exc # "RepoError"
          /\ HasField(st[c].w0, st[c].call.wid, st[c].call.cid) ) =>
            LET e == PyInt(st[c].w0[st[c].call.wid][st[c].call.cid])
            IN  /\ e.ok
                /\ st[c].ret = "list"
                /\ DOMAIN warehouse = DOMAIN st[c].w0
                /\ \A w \in DOMAIN warehouse :
                      /\ DOMAIN warehouse[w] = DOMAIN st[c].w0[w]
                      /\ \A p \in DOMAIN warehouse[w] :
                            warehouse[w][p] =
                                IF w = st[c].call.wid /\ p = st[c].call.cid
                                THEN Str(e.v + Signed(st[c].call))
                                ELSE st[c].w0[w][p]

\* a debit larger than the quantity held was applied: the field is negative
C16_Witness ==
    \E c \in Callers :
        /\ Ended(c, "debit")
        /\ st[c].ret = "list"
        /\ HasField(st[c].w0, st[c].call.wid, st[c].call.cid)
        /\ st[c].w0[st[c].call.wid][st[c].call.cid] = Str(1)
        /\ st[c].call.count = MaxCount
        /\ warehouse[st[c].call.wid][st[c].call.cid] = Str(1 - MaxCount)

\* the messages of a send_operation that handled the batch entry by entry, in order:
\* per entry either the failure message alone, or the shipment's message followed by
\* the two messages of the debit
RECURSIVE InEncounterOrder(_, _)
InEncounterOrder(inventory, msgs) ==
    IF inventory = <<>> THEN msgs = <<>>
    ELSE LET p == inventory[1][1]
         IN  /\ msgs # <<>>
             /\ \/ /\ msgs[1] = Msg("Failed", p, 0)
                   /\ InEncounterOrder(Tail(inventory), Tail(msgs))
                \/ /\ Len(msgs) >= 3
                   /\ msgs[1] = Msg("Inserted", p, 0)
                   /\ msgs[2] = Msg("Added", p, 0)
                   /\ msgs[3].k = "Updated" /\ msgs[3].p = p
                   /\ InEncounterOrder(Tail(inventory), SubSeq(msgs, 4, Len(msgs)))

\* send_operation recorded that add_transporting succeeded / failed for product p
ShipSucceeded(c, p) ==
    \E k \in 1..Len(st[c].result_messages) : st[c].result_messages[k] = Msg("Inserted", p, 0)

ShipFailed(c, p) ==
    \E k \in 1..Len(st[c].result_messages) : st[c].result_messages[k] = Msg("Failed", p, 0)

\* C17: send_operation handles the products of the batch in encounter order; for each
\* product add_transporting comes before update_warehouse, and update_warehouse runs
\* only if add_transporting succeeded; a failed add_transporting records a failure
\* message, skips that product's debit and lets the following products proceed.
C17_ShipBeforeDebit ==
    \A c \in Callers :
        st[c].call.op = "send" =>
            LET s == st[c]
                wid == s.call.wid
            IN  /\ s.pc = "ship" =>
                      FieldOf(warehouse, wid, ClientId(s)) = FieldOf(s.w0, wid, ClientId(s))
                /\ s.pc \in {"uw_find", "uw_update"} =>
                      /\ s.result_messages[Len(s.result_messages)]
                           = Msg("Inserted", ClientId(s), 0)
                      /\ FieldOf(transport, s.call.route, ClientId(s))
                           = PyStr(Marked(CountArg(s)))
                /\ \A k \in 1..Len(s.inventory) :
                      ShipFailed(c, s.inventory[k][1]) =>
                          /\ ~ShipSucceeded(c, s.inventory[k][1])
                          /\ FieldOf(warehouse, wid, s.inventory[k][1])
                               = FieldOf(s.w0, wid, s.inventory[k][1])
                          /\ FieldOf(transport, s.call.route, s.inventory[k][1])
                               = FieldOf(s.t0, s.call.route, s.inventory[k][1])
                /\ (Ended(c, "send") /\ s.ret = "list") =>
                      /\ InEncounterOrder(s.inventory, s.result_messages)
                      /\ \A k \in 1..Len(s.inventory) :
                            ShipSucceeded(c, s.inventory[k][1]) =>
                                LET e == PyInt(s.w0[wid][s.inventory[k][1]])
                                IN  warehouse[wid][s.inventory[k][1]]
                                      = Str(e.v - s.inventory[k][2])

\* the shipment of the first product failed; the second was shipped and debited
C17_Witness ==
    \E c \in Callers :
        /\ Ended(c, "send")
        /\ st[c].ret = "list"
        /\ Len(st[c].inventory) = 2
        /\ Len(st[c].result_messages) = 4
        /\ st[c].result_messages[1].k = "Failed"
        /\ st[c].result_messages[2].k = "Inserted"
        /\ st[c].result_messages[4].k = "Updated"

\* C18: when receive_operation gets past the confirmation and reconciliation of its
\* first product, every (product, count) entry of the batch is credited to the
\* warehouse exactly once, by its scanned count, whether the outcome was a loss or
\* no loss, after the classification / notification step. (The store answered every
\* call, and the notifier returned.)
C18_EveryEntryCredited ==
    \A c \in Callers :
        ( /\ Ended(c, "receive")
          /\ st[c].status # ""
          /\ st[c].exc # "RepoError" ) =>
            /\ st[c].ret = "list"
            /\ Credited(c)

\* both callers ran update_warehouse / Receive_warehouse to its return on the same
\* warehouse and product, each having started from the same warehouse records
SameFieldMutations ==
    /\ \A c \in Callers :
          /\ st[c].call.op \in {"debit", "credit"}
          /\ Ended(c, st[c].call.op)
          /\ st[c].ret = "list"
    /\ st[1].call.wid = st[2].call.wid
    /\ st[1].call.cid = st[2].call.cid
    /\ st[1].w0 = st[2].w0

\* C19: two callers running warehouse mutations concurrently on the same warehouse
\* and product can interleave their reads and writes so that one update is lost:
\* from the quantity e and the amounts a and b, the quantity after both calls is
\* the sequential e + a + b, or e + a, or e + b with the other update lost (for two
\* debits: e - a - b, e - a or e - b).
C19_LostUpdateOutcomes ==
    SameFieldMutations =>
        LET wid == st[1].call.wid
            cid == st[1].call.cid
            e == PyInt(st[1].w0[wid][cid]).v
            a == Signed(st[1].call)
            b == Signed(st[2].call)
        IN  warehouse[wid][cid] \in {Str(e + a + b), Str(e + a), Str(e + b)}

\* two debits a, b >= 1 both returned and the quantity is e - a: b's update is lost
C19_Witness ==
    /\ SameFieldMutations
    /\ st[1].call.op = "debit" /\ st[2].call.op = "debit"
    /\ st[1].call.count = 1 /\ st[2].call.count = 1
    /\ LET wid == st[1].call.wid
           cid == st[1].call.cid
           e == PyInt(st[1].w0[wid][cid]).v
       IN  /\ e = MaxStock
           /\ warehouse[wid][cid] = Str(e - 1)
           /\ warehouse[wid][cid] # Str(e - 2)

\* the direct call of caller c wrote the product's field of the route's record
WroteTransport(c) ==
    \/ Ended(c, "ship") /\ st[c].ret = "route"
    \/ Ended(c, "confirm") /\ st[c].ret = "dict"

\* C20: every product quantity field of a transport record carries the
\* one-character marker ":" in every reachable state: both add_transporting and a
\* successful delete_transporting write the quantity in the marker-prefixed encoding.
C20_MarkerEverywhere ==
    \A c \in Callers :
        WroteTransport(c) =>
            /\ HasField(transport, st[c].call.route, st[c].call.cid)
            /\ StartsWith(transport[st[c].call.route][st[c].call.cid], ":")

\* C21: for every non-negative integer k, clean_value applied to the stored encoding
\* of k (the marker followed by the decimal digits of k, as add_transporting writes
\* it) returns k, and clean_value applied to the unprefixed decimal string of k also
\* returns k.
C21_CleanRoundTrip ==
    \A c \in Callers :
        Ended(c, "clean") =>
            \A k \in 0..MaxEncoded :
                st[c].call.value \in {PyStr(Marked(k)), PyStr(Str(k))} =>
                    st[c].ret = "int" /\ st[c].new_count = k

\* the encoding of a two-digit integer with the marker was cleaned
C21_Witness ==
    \E c \in Callers :
        /\ Ended(c, "clean")
        /\ st[c].call.value = PyStr(<<":", "1", "0">>)
        /\ st[c].ret = "int"
        /\ st[c].new_count = 10

\* C22: clean_value returns 0 both for an absent value (None) and for a value that
\* consists of the marker character alone (":"), without raising.
C22_MarkerAloneIsZero ==
    \A c \in Callers :
        (Ended(c, "clean") /\ st[c].call.value \in {PyNone, PyStr(<<":">>)}) =>
            st[c].ret = "int" /\ st[c].new_count = 0

\* C23: every completed call of send_operation and of receive_operation returns a
\* list whose elements are all status strings, also when the scanned batch is empty
\* and when a loss is detected (the loss case yields a status string, not None).
C23_ReturnsStatusStrings ==
    \A c \in Callers :
        ( /\ st[c].call.op \in {"send", "receive"}
          /\ Ended(c, st[c].call.op)
          /\ st[c].ret # "raised" ) =>
            /\ st[c].ret = "list"
            /\ \A k \in 1..Len(st[c].result_messages) :
                  st[c].result_messages[k].k # "None"

\* the attempts of a log that resolved to product p
ResolvedTo(log, p) ==
    {k \in 1..Len(log) : Resolved(log[k]) /\ UniqueCodes[log[k].code] = p}

\* the first attempt of a log that resolved to product p
FirstResolved(log, p) ==
    CHOOSE k \in ResolvedTo(log, p) : \A j \in ResolvedTo(log, p) : k <= j

\* C24: the batch run_multiple_scans returns has exactly one entry per distinct
\* resolved product, ordered by the first resolved scan of that product, each with a
\* count >= 1 equal to the number of scans that resolved to it; products with no
\* resolved scan, and unresolved codes, never appear.
C24_BatchShape ==
    \A c \in Callers :
        Ended(c, "scan") =>
            LET inv == st[c].inventory
                log == st[c].scanlog
            IN  /\ \A j \in 1..Len(inv) :
                      /\ inv[j][1] \in Products
                      /\ inv[j][2] >= 1
                      /\ inv[j][2] = Cardinality(ResolvedTo(log, inv[j][1]))
                /\ \A p \in Products :
                      ResolvedTo(log, p) # {} =>
                          Cardinality({j \in 1..Len(inv) : inv[j][1] = p}) = 1
                /\ \A i \in 1..Len(inv), j \in 1..Len(inv) :
                      i < j => FirstResolved(log, inv[i][1]) < FirstResolved(log, inv[j][1])

\* product_2 resolved first, product_1 after it
C24_Witness ==
    \E c \in Callers :
        /\ Ended(c, "scan")
        /\ Len(st[c].scanlog) >= 2
        /\ Resolved(st[c].scanlog[1])
        /\ UniqueCodes[st[c].scanlog[1].code] = "product_2"
        /\ st[c].inventory = <<<<"product_2", 1>>, <<"product_1", 1>>>>

\* C25: one receive_operation call invokes delete_transporting at most once, for the
\* first product of the batch only: for every later product of a multi-product batch
\* the transport ledger quantity is left unchanged and no reconciliation delta is
\* computed.
C25_OnlyFirstConfirmed ==
    \A c \in Callers :
        st[c].call.op = "receive" =>
            LET s == st[c]
                first == s.inventory[1][1]
            IN  /\ s.pc \in {"dt_find", "dt_update", "reconcile"} => s.idx = 1
                /\ s.inventory # <<>> =>
                      /\ DOMAIN s.transport_record.d \subseteq {first}
                      /\ DOMAIN s.res \subseteq {first}
                      /\ \A k \in 2..Len(s.inventory) :
                            FieldOf(transport, s.call.route, s.inventory[k][1])
                              = FieldOf(s.t0, s.call.route, s.inventory[k][1])
                /\ \A r \in DOMAIN s.t0 \ {s.call.route} : transport[r] = s.t0[r]

\* a batch of two products was received to its return: the first was confirmed, the
\* record still holds the quantity of the second as it was
C25_Witness ==
    \E c \in Callers :
        /\ Ended(c, "receive")
        /\ st[c].ret = "list"
        /\ Len(st[c].inventory) = 2
        /\ HasField(st[c].t0, st[c].call.route, st[c].inventory[2][1])
        /\ FieldOf(transport, st[c].call.route, st[c].inventory[1][1])
             # FieldOf(st[c].t0, st[c].call.route, st[c].inventory[1][1])
        /\ FieldOf(transport, st[c].call.route, st[c].inventory[2][1])
             = FieldOf(st[c].t0, st[c].call.route, st[c].inventory[2][1])

\* C26: under any interleaving of concurrent delete_transporting calls on the same
\* route and product, the sum of the counts of the calls that succeed never exceeds
\* the quantity recorded for that product before the first of them.
C26_ConfirmedWithinRecorded ==
    ( /\ \A c \in Callers : Ended(c, "confirm") /\ st[c].ret = "dict"
      /\ st[1].call.route = st[2].call.route
      /\ st[1].call.cid = st[2].call.cid
      /\ st[1].t0 = st[2].t0 ) =>
        st[1].call.count + st[2].call.count
          <= PyInt(st[1].t0[st[1].call.route][st[1].call.cid]).v

\* the quantity collection coll records for product p under key, 0 when it holds none
Quantity(coll, key, p) == clean_value(FieldOf(coll, key, p)).v

\* the quantity of product p the transport ledger coll records as in transit from
\* warehouse wid, over its routes
RECURSIVE InTransitOver(_, _, _, _)
InTransitOver(coll, wid, p, addrs) ==
    IF addrs = {} THEN 0
    ELSE LET a == CHOOSE x \in addrs : TRUE
         IN  Quantity(coll, RouteKey(wid, a), p) + InTransitOver(coll, wid, p, addrs \ {a})

InTransit(coll, wid, p) == InTransitOver(coll, wid, p, Addresses)

\* every field of the routes of warehouse wid was written by add_transporting
OnlyShipped(coll, wid) ==
    \A a \in Addresses :
        RouteKey(wid, a) \in DOMAIN coll =>
            \A p \in DOMAIN coll[RouteKey(wid, a)] :
                StartsWith(coll[RouteKey(wid, a)][p], ":")

\* C27: after any sequence of completed send_operation calls from one warehouse (no
\* receives, no failures), for every product the quantity debited from the warehouse
\* in total equals the quantity the transport ledger records as in transit for it:
\* warehouse quantity + in-transit quantity stays what it was. (Stated for each
\* completed call of the sequence against the ledgers at its start.)
C27_SendConserves ==
    \A c \in Callers :
        ( /\ Ended(c, "send")
          /\ st[c].ret = "list"
          /\ OnlyShipped(st[c].t0, st[c].call.wid)
          /\ \A k \in 1..Len(st[c].inventory) : ~ShipFailed(c, st[c].inventory[k][1]) ) =>
            \A p \in Products :
                Quantity(warehouse, st[c].call.wid, p) + InTransit(transport, st[c].call.wid, p)
                  = Quantity(st[c].w0, st[c].call.wid, p) + InTransit(st[c].t0, st[c].call.wid, p)

\* C28: whenever a send_operation call ends, by returning or by an error, every
\* product whose transport field was written by that call has also had its warehouse
\* quantity debited by the same count: no product is left shipped on the transport
\* ledger but undebited in the warehouse.
C28_ShippedImpliesDebited ==
    \A c \in Callers :
        Ended(c, "send") =>
            \A k \in 1..Len(st[c].inventory) :
                ShipSucceeded(c, st[c].inventory[k][1]) =>
                    /\ HasField(warehouse, st[c].call.wid, st[c].inventory[k][1])
                    /\ Quantity(warehouse, st[c].call.wid, st[c].inventory[k][1])
                         = Quantity(st[c].w0, st[c].call.wid, st[c].inventory[k][1])
                           - st[c].inventory[k][2]

\* caller c has computed the route key of its call
Keyed(c) == st[c].call.op \in {"send", "receive"} /\ st[c].pc = "scan"

\* C29: send_operation and receive_operation called with the same (warehouse_id,
\* address) pair address the same transport record, and two different pairs always
\* address different transport records: the route key warehouse_id + "-" + address
\* is injective, also when ids or addresses contain "-".
C29_RouteKeyInjective ==
    (Keyed(1) /\ Keyed(2)) =>
        (st[1].call.route = st[2].call.route)
          <=> (st[1].call.wid = st[2].call.wid /\ st[1].call.addr = st[2].call.addr)

============================================================================
